---- MODULE Spec2Model ----
(***************************************************************************)
(* Live-sync subsystem of mermaid-server: per-project filesystem watchers, *)
(* debounced change notification, the subscriber registry and the          *)
(* /__reload streaming endpoint.                                           *)
(*                                                                         *)
(* Six specifications share the state:                                     *)
(*   Spec       the HTTP server (/__reload handler, its cleanup closure,   *)
(*              heartbeat, watcher callbacks, debounce timers, project     *)
(*              API), every project path drawn from SpecDirs               *)
(*   PathSpec   the same server with one connection and project paths      *)
(*              drawn from Dirs, so that PATCH can move a project          *)
(*   ApiSpec    the registry functions exported by lib/utils.js called in  *)
(*              any order                                                  *)
(*   SearchSpec searchFiles applied to a tree, a query and a limit         *)
(*   GuardSpec  isPathWithinProject applied to a root and a path           *)
(*   ScanSpec   getMarkdownFiles as the /p/:id route calls it on a tree    *)
(***************************************************************************)
EXTENDS Integers, Sequences, FiniteSets, TLC

\* ---- bounds of the model ----
MaxConns == 2
MaxTimers == 3
MaxOut == 2
MaxBurst == 2
MaxLimit == 4
MaxSegments == 3

\* ---- program constants ----
\* req 'close', res 'close' and res 'error' all run the same cleanup closure
NumCleanupHandlers == 3

ProjectIds == {"p1", "p2"}
NoId == ""
Dirs == {"d1", "d2"}
SpecDirs == {"d1"}
Conns == 1..MaxConns
TimerIds == 1..MaxTimers
MdExt == <<".", "m", "d">>

\* filename argument of the fs.watch callback: null, or a string
NullName == [present |-> FALSE, name |-> <<>>]
Str(s) == [present |-> TRUE, name |-> s]
Filenames ==
  { NullName,
    Str(<<>>),
    Str(<<"a", ".", "m", "d">>),
    Str(<<".", "m", "d">>),
    Str(<<"a", ".", "t", "x", "t">>),
    Str(<<"a", "m", "d">>),
    Str(<<"a", ".", "m", "d", "~">>) }

VARIABLES
  projects,        \* config.projects: project id -> path
  clients,         \* Map projectId -> Set of res (insertion ordered)
  watchers,        \* Map projectId -> FSWatcher
  openWatches,     \* per project id, OS watch registrations not yet closed
  debounceTimers,  \* Map projectId -> timer
  liveTimers,      \* timers scheduled and neither fired nor cleared
  status,          \* per connection: idle, open, closing, ended
  connProject,     \* per connection: projectId captured by the handler closure
  writable,        \* per connection: res.writable
  heartbeat,       \* per connection: heartbeat interval is scheduled
  out,             \* per connection: events written to the stream
  cleanups,        \* per connection: number of cleanup invocations so far
  burst,           \* per project id: qualifying events since the last firing
  regBefore,       \* per project id: pairs <<a, b>> of current subscribers
                   \* such that a was registered before b
  joinedPending,   \* per project id: the current subscribers that the
                   \* /__reload handler registered while a debounce timer
                   \* of the project was pending
  call,            \* the call of a pure function under study: its
                   \* arguments and, once it has returned, its result
  last             \* what the latest step did: ignored (a watch event that does
                   \* not qualify), watchFailed (fs.watch threw), closed (a
                   \* watcher was closed), late (a firing wrote a reload to
                   \* a late joiner), skipped (a firing skipped a registered
                   \* connection and wrote to no late joiner), else none

vars == <<projects, clients, watchers, openWatches, debounceTimers,
          liveTimers, status, connProject, writable, heartbeat, out, cleanups,
          burst, regBefore, joinedPending, call, last>>

connVars == <<status, connProject, heartbeat, cleanups>>
configVars == <<projects>>
pureVars == <<call>>

\* ---- JS Map / Set helpers ----
EmptyMap == [k \in {} |-> 0]
MapSet(m, k, v) == [x \in (DOMAIN m) \cup {k} |-> IF x = k THEN v ELSE m[x]]
MapDelete(m, k) == [x \in (DOMAIN m) \ {k} |-> m[x]]
Range(s) == {s[i] : i \in DOMAIN s}
\* variant: a set that iterates the newest element first
SetAddFront(s, c) == IF c \in Range(s) THEN s ELSE <<c>> \o s
\* Set.prototype.add: a new element goes last in iteration order
SetAdd(s, c) == IF c \in Range(s) THEN s ELSE Append(s, c)
SetDelete(s, c) == SelectSeq(s, LAMBDA x : x # c)

\* ---- String.prototype.endsWith ----
EndsWith(s, suffix) ==
  /\ Len(s) >= Len(suffix)
  /\ SubSeq(s, Len(s) - Len(suffix) + 1, Len(s)) = suffix

\* ---- strings: sequences of UTF-16 code units, one token per unit ----
Whitespace == {" ", "\n", "\t"}
Slash == "/"
Dot == "."
\* U+0130, capital I with dot above, and U+0307, combining dot above
CapitalIDot == "U+0130"
CombiningDot == "U+0307"

Min(a, b) == IF a < b THEN a ELSE b
Max(a, b) == IF a > b THEN a ELSE b

\* String.prototype.startsWith
StartsWith(s, prefix) ==
  /\ Len(s) >= Len(prefix)
  /\ SubSeq(s, 1, Len(prefix)) = prefix

\* String.prototype.slice(from, to) with 0 <= from
Slice(s, from, to) == SubSeq(s, from + 1, Min(to, Len(s)))

\* String.prototype.toLowerCase, one code unit at a time: U+0130 becomes the
\* two units i, U+0307
LowerOf(ch) ==
  CASE ch = "A" -> <<"a">>
    [] ch = "F" -> <<"f">>
    [] ch = "I" -> <<"i">>
    [] ch = CapitalIDot -> <<"i", CombiningDot>>
    [] OTHER -> <<ch>>

RECURSIVE ToLowerCase(_)
ToLowerCase(s) ==
  IF s = <<>> THEN <<>> ELSE LowerOf(Head(s)) \o ToLowerCase(Tail(s))

\* String.prototype.trim
RECURSIVE TrimStart(_)
TrimStart(s) ==
  IF s # <<>> /\ Head(s) \in Whitespace THEN TrimStart(Tail(s)) ELSE s
RECURSIVE TrimEnd(_)
TrimEnd(s) ==
  IF s # <<>> /\ s[Len(s)] \in Whitespace
  THEN TrimEnd(SubSeq(s, 1, Len(s) - 1))
  ELSE s
Trim(s) == TrimEnd(TrimStart(s))

\* split(/\s+/).filter((w) => w.length > 0); cur is the word being read
RECURSIVE SplitWords(_, _)
SplitWords(s, cur) ==
  IF s = <<>> THEN (IF cur = <<>> THEN <<>> ELSE <<cur>>)
  ELSE IF Head(s) \in Whitespace
       THEN (IF cur = <<>> THEN <<>> ELSE <<cur>>) \o SplitWords(Tail(s), <<>>)
       ELSE SplitWords(Tail(s), Append(cur, Head(s)))

\* String.prototype.indexOf: 0-based offset of the first occurrence, or -1
IndexOf(text, w) ==
  LET at == {i \in 0..(Len(text) - Len(w)) : SubSeq(text, i + 1, i + Len(w)) = w}
  IN IF at = {} THEN -1 ELSE CHOOSE i \in at : \A j \in at : i <= j

\* String.prototype.includes
Includes(text, w) == IndexOf(text, w) # -1

\* replace(/\n/g, ' ').replace(/\s+/g, ' '): every run of whitespace
\* becomes one space
RECURSIVE CollapseWhitespace(_)
CollapseWhitespace(s) ==
  IF s = <<>> THEN <<>>
  ELSE IF Head(s) \in Whitespace
       THEN <<" ">> \o CollapseWhitespace(TrimStart(s))
       ELSE <<Head(s)>> \o CollapseWhitespace(Tail(s))

\* the number of newline characters of s
RECURSIVE Newlines(_)
Newlines(s) ==
  IF s = <<>> THEN 0
  ELSE (IF Head(s) = "\n" THEN 1 ELSE 0) + Newlines(Tail(s))

\* ---- path (POSIX): join, relative, isAbsolute ----
DotDot == <<Dot, Dot>>
\* process.cwd()
Cwd == <<Slash, "w">>

\* split on the separator; cur is the segment being read
RECURSIVE SplitSegments(_, _)
SplitSegments(s, cur) ==
  IF s = <<>> THEN <<cur>>
  ELSE IF Head(s) = Slash
       THEN <<cur>> \o SplitSegments(Tail(s), <<>>)
       ELSE SplitSegments(Tail(s), Append(cur, Head(s)))

RECURSIVE JoinSegments(_)
JoinSegments(segs) ==
  IF segs = <<>> THEN <<>>
  ELSE IF Len(segs) = 1 THEN segs[1]
  ELSE segs[1] \o <<Slash>> \o JoinSegments(Tail(segs))

\* normalizeString: empty and "." segments go, ".." removes the segment
\* before it, and is kept only where the path may climb above its start
RECURSIVE NormalizeSegments(_, _, _)
NormalizeSegments(segs, allowAboveRoot, acc) ==
  IF segs = <<>> THEN acc
  ELSE LET seg == Head(segs)
           next ==
             IF seg = <<>> \/ seg = <<Dot>> THEN acc
             ELSE IF seg = DotDot
                  THEN IF acc # <<>> /\ acc[Len(acc)] # DotDot
                       THEN SubSeq(acc, 1, Len(acc) - 1)
                       ELSE IF allowAboveRoot THEN Append(acc, DotDot)
                       ELSE acc
                  ELSE Append(acc, seg)
       IN NormalizeSegments(Tail(segs), allowAboveRoot, next)

\* path.isAbsolute
IsAbsolute(s) == s # <<>> /\ s[1] = Slash

\* path.normalize
PathNormalize(s) ==
  IF s = <<>> THEN <<Dot>>
  ELSE LET isAbsolute == IsAbsolute(s)
           trailingSeparator == s[Len(s)] = Slash
           body == JoinSegments(
                     NormalizeSegments(SplitSegments(s, <<>>), ~isAbsolute,
                                       <<>>))
       IN IF body = <<>>
          THEN (IF isAbsolute THEN <<Slash>>
                ELSE IF trailingSeparator THEN <<Dot, Slash>> ELSE <<Dot>>)
          ELSE (IF isAbsolute THEN <<Slash>> ELSE <<>>) \o body
               \o (IF trailingSeparator THEN <<Slash>> ELSE <<>>)

\* path.join of two arguments
PathJoin(a, b) ==
  IF a = <<>> /\ b = <<>> THEN <<Dot>>
  ELSE IF a = <<>> THEN PathNormalize(b)
  ELSE IF b = <<>> THEN PathNormalize(a)
  ELSE PathNormalize(a \o <<Slash>> \o b)

\* path.resolve of one argument, as the segments below the file system root
PathResolve(s) ==
  NormalizeSegments(
    SplitSegments(IF IsAbsolute(s) THEN s ELSE Cwd \o <<Slash>> \o s, <<>>),
    FALSE, <<>>)

\* the number of leading segments two resolved paths share
CommonLength(a, b) ==
  LET shared == {n \in 0..Min(Len(a), Len(b)) :
                   SubSeq(a, 1, n) = SubSeq(b, 1, n)}
  IN CHOOSE n \in shared : \A m \in shared : m <= n

\* path.relative
PathRelative(from, to) ==
  IF from = to THEN <<>>
  ELSE LET fromSegs == PathResolve(from)
           toSegs == PathResolve(to)
           common == CommonLength(fromSegs, toSegs)
       IN JoinSegments([i \in 1..(Len(fromSegs) - common) |-> DotDot]
                       \o SubSeq(toSegs, common + 1, Len(toSegs)))

\* variant: only refuses a relative path that is absolute
IsPathWithinProjectNoParentCheck(projectPath, filePath) ==
  LET fullPath == PathJoin(projectPath, filePath)
      relative == PathRelative(projectPath, fullPath)
  IN ~IsAbsolute(relative)

\* isPathWithinProject
IsPathWithinProject(projectPath, filePath) ==
  LET fullPath == PathJoin(projectPath, filePath)
      relative == PathRelative(projectPath, fullPath)
  IN ~StartsWith(relative, DotDot) /\ ~IsAbsolute(relative)

\* ---- lib/utils.js: directory scan ----

\* the directory name the traversals leave out
NodeModules == <<"n", "o", "d", "e", "_", "m", "o", "d", "u", "l", "e", "s">>

\* readdirSync of getMarkdownFiles is not guarded: the call throws when the
\* directory, or with recursive one it descends into, cannot be listed
RECURSIVE ScanThrows(_, _)
ScanThrows(dir, recursive) ==
  /\ dir.exists
  /\ \/ ~dir.listable
     \/ /\ recursive
        /\ \E i \in DOMAIN dir.entries :
             /\ dir.entries[i].isDir
             /\ ~StartsWith(dir.entries[i].name, <<Dot>>)
             /\ dir.entries[i].name # NodeModules
             /\ ScanThrows(dir.entries[i].dir, TRUE)

RECURSIVE ListEntriesDescending(_, _, _)
RECURSIVE ListEntries(_, _, _)
RECURSIVE GetMarkdownFiles(_, _, _)

\* variant: descends into the subdirectories whatever recursive says
ListEntriesDescending(entries, prefix, recursive) ==
  IF entries = <<>> THEN <<>>
  ELSE LET entry == Head(entries)
           fullPath == PathJoin(prefix, entry.name)
           found ==
             IF StartsWith(entry.name, <<Dot>>) \/ entry.name = NodeModules
             THEN <<>>
             ELSE IF entry.isDir
                  THEN GetMarkdownFiles(entry.dir, fullPath, TRUE)
                  ELSE IF EndsWith(entry.name, MdExt) THEN <<fullPath>>
                       ELSE <<>>
       IN found \o ListEntriesDescending(Tail(entries), prefix, recursive)

\* getMarkdownFiles: the loop over the entries of one directory
ListEntries(entries, prefix, recursive) ==
  IF entries = <<>> THEN <<>>
  ELSE LET entry == Head(entries)
           fullPath == PathJoin(prefix, entry.name)
           found ==
             IF StartsWith(entry.name, <<Dot>>) \/ entry.name = NodeModules
             THEN <<>>
             ELSE IF entry.isDir
                  THEN IF recursive
                       THEN GetMarkdownFiles(entry.dir, fullPath, TRUE)
                       ELSE <<fullPath \o <<Slash>>>>
                  ELSE IF EndsWith(entry.name, MdExt) THEN <<fullPath>>
                       ELSE <<>>
       IN found \o ListEntries(Tail(entries), prefix, recursive)

\* getMarkdownFiles, when it does not throw
GetMarkdownFiles(dir, prefix, recursive) ==
  IF ~dir.exists THEN <<>> ELSE ListEntries(dir.entries, prefix, recursive)

\* the directory of tree that the segments of a path lead to
RECURSIVE Lookup(_, _)
Lookup(dir, segs) ==
  IF segs = <<>> THEN dir
  ELSE LET hits == {i \in DOMAIN dir.entries :
                      /\ dir.entries[i].isDir
                      /\ dir.entries[i].name = Head(segs)}
       IN IF ~dir.exists \/ hits = {}
          THEN [exists |-> FALSE, listable |-> FALSE, entries |-> <<>>]
          ELSE Lookup(dir.entries[CHOOSE i \in hits : TRUE].dir, Tail(segs))

\* ---- lib/utils.js: full-text search ----

\* searchFiles(projectPath, query, limit = 15)
DefaultLimit == 15
\* the snippet keeps 50 code units before the match offset and 80 after
SnippetBefore == 50
SnippetAfter == 80
Ellipsis == <<".", ".", ".">>

\* extractH1Title: content.match(/^#\s+(.+)$/m), then trim. The leftmost
\* line that starts with # and whitespace decides: \s+ runs over every
\* whitespace unit, newlines included, and (.+) is the rest of the line
\* reached. When the whitespace runs to the end of the text the match, if
\* any, captures whitespace only and trims to the empty string. The result
\* <<>> stands for both null and the empty string, which the caller treats
\* alike.
ExtractH1Title(content) ==
  LET starts == {i \in 1..(Len(content) - 1) :
                   /\ i = 1 \/ content[i - 1] = "\n"
                   /\ content[i] = "#"
                   /\ content[i + 1] \in Whitespace}
  IN IF starts = {} THEN <<>>
     ELSE LET i == CHOOSE x \in starts : \A y \in starts : x <= y
              rest == TrimStart(SubSeq(content, i + 1, Len(content)))
              eol == IndexOf(rest, <<"\n">>)
              line == IF eol = -1 THEN rest ELSE Slice(rest, 0, eol)
          IN Trim(line)

\* matchesAllWords
MatchesAllWords(text, words) ==
  LET lowerText == ToLowerCase(text)
  IN \A k \in DOMAIN words : Includes(lowerText, words[k])

\* findFirstMatchIndex
FindFirstMatchIndex(text, words) ==
  LET lowerText == ToLowerCase(text)
      found == {IndexOf(lowerText, words[k]) : k \in DOMAIN words} \ {-1}
  IN IF found = {} THEN -1 ELSE CHOOSE i \in found : \A j \in found : i <= j

\* getAllMarkdownFiles of searchFiles: a directory is a record
\* [exists, listable, entries]; an entry is a file [name, isDir, content,
\* readable] or a directory [name, isDir, dir]
RECURSIVE GetAllMarkdownFiles(_, _)
RECURSIVE ScanEntries(_, _)
GetAllMarkdownFiles(dir, prefix) ==
  IF ~dir.exists \/ ~dir.listable THEN <<>>
  ELSE ScanEntries(dir.entries, prefix)

\* the loop over the entries of one directory
ScanEntries(entries, prefix) ==
  IF entries = <<>> THEN <<>>
  ELSE LET entry == Head(entries)
           relativePath == IF prefix # <<>>
                           THEN prefix \o <<Slash>> \o entry.name
                           ELSE entry.name
           found ==
             IF StartsWith(entry.name, <<Dot>>) \/ entry.name = NodeModules
             THEN <<>>
             ELSE IF entry.isDir
                  THEN GetAllMarkdownFiles(entry.dir, relativePath)
                  ELSE IF EndsWith(entry.name, MdExt)
                       THEN <<[relativePath |-> relativePath,
                               name |-> entry.name,
                               content |-> entry.content,
                               readable |-> entry.readable]>>
                       ELSE <<>>
       IN found \o ScanEntries(Tail(entries), prefix)

\* the snippet of a content match
Snippet(content, matchIndex) ==
  LET start == Max(0, matchIndex - SnippetBefore)
      end == Min(Len(content), matchIndex + SnippetAfter)
      body == Trim(CollapseWhitespace(Slice(content, start, end)))
  IN (IF start > 0 THEN Ellipsis ELSE <<>>) \o body
     \o (IF end < Len(content) THEN Ellipsis ELSE <<>>)

\* content.slice(0, matchIndex).split('\n').length
LineNumber(content, matchIndex) == Newlines(Slice(content, 0, matchIndex)) + 1

\* variant: the filename pass without the test of the limit
RECURSIVE FilenamePassNoLimit(_, _, _, _)
FilenamePassNoLimit(files, words, limit, acc) ==
  IF files = <<>> THEN acc
  ELSE LET file == Head(files)
       IN FilenamePassNoLimit(Tail(files), words, limit,
            IF MatchesAllWords(file.name, words)
            THEN [acc EXCEPT
                    !.results = Append(@, [type |-> "filename",
                                           path |-> file.relativePath,
                                           name |-> file.name,
                                           snippet |-> file.relativePath]),
                    !.seenPaths = @ \cup {file.relativePath}]
            ELSE acc)

\* first pass: filename matches. acc holds results, seenPaths and the
\* number of readFileSync calls made so far
RECURSIVE FilenamePass(_, _, _, _)
FilenamePass(files, words, limit, acc) ==
  IF files = <<>> \/ Len(acc.results) >= limit THEN acc
  ELSE LET file == Head(files)
       IN FilenamePass(Tail(files), words, limit,
            IF MatchesAllWords(file.name, words)
            THEN [acc EXCEPT
                    !.results = Append(@, [type |-> "filename",
                                           path |-> file.relativePath,
                                           name |-> file.name,
                                           snippet |-> file.relativePath]),
                    !.seenPaths = @ \cup {file.relativePath}]
            ELSE acc)

\* variant: the title pass also takes the files an earlier pass reported
RECURSIVE TitlePassNoSeenCheck(_, _, _, _)
TitlePassNoSeenCheck(files, words, limit, acc) ==
  IF files = <<>> \/ Len(acc.results) >= limit THEN acc
  ELSE LET file == Head(files)
           h1Title == ExtractH1Title(file.content)
           read == [acc EXCEPT !.reads = @ + 1]
       IN TitlePassNoSeenCheck(Tail(files), words, limit,
            IF ~file.readable THEN read
            ELSE IF h1Title # <<>> /\ MatchesAllWords(h1Title, words)
                 THEN [read EXCEPT
                         !.results = Append(@, [type |-> "title",
                                                path |-> file.relativePath,
                                                name |-> file.name,
                                                snippet |-> h1Title,
                                                line |-> 1]),
                         !.seenPaths = @ \cup {file.relativePath}]
                 ELSE read)

\* second pass: H1 title matches; readFileSync throws for an unreadable file
RECURSIVE TitlePass(_, _, _, _)
TitlePass(files, words, limit, acc) ==
  IF files = <<>> \/ Len(acc.results) >= limit THEN acc
  ELSE LET file == Head(files)
           h1Title == ExtractH1Title(file.content)
           read == [acc EXCEPT !.reads = @ + 1]
       IN TitlePass(Tail(files), words, limit,
            IF file.relativePath \in acc.seenPaths THEN acc
            ELSE IF ~file.readable THEN read
            ELSE IF h1Title # <<>> /\ MatchesAllWords(h1Title, words)
                 THEN [read EXCEPT
                         !.results = Append(@, [type |-> "title",
                                                path |-> file.relativePath,
                                                name |-> file.name,
                                                snippet |-> h1Title,
                                                line |-> 1]),
                         !.seenPaths = @ \cup {file.relativePath}]
                 ELSE read)

\* variant: the content pass also takes the files an earlier pass reported
RECURSIVE ContentPassNoSeenCheck(_, _, _, _)
ContentPassNoSeenCheck(files, words, limit, acc) ==
  IF files = <<>> \/ Len(acc.results) >= limit THEN acc
  ELSE LET file == Head(files)
           matchIndex == FindFirstMatchIndex(file.content, words)
           read == [acc EXCEPT !.reads = @ + 1]
       IN ContentPassNoSeenCheck(Tail(files), words, limit,
            IF ~file.readable THEN read
            ELSE IF MatchesAllWords(file.content, words) /\ matchIndex # -1
                 THEN [read EXCEPT
                         !.results =
                           Append(@, [type |-> "content",
                                      path |-> file.relativePath,
                                      name |-> file.name,
                                      snippet |-> Snippet(file.content,
                                                          matchIndex),
                                      line |-> LineNumber(file.content,
                                                          matchIndex)]),
                         !.seenPaths = @ \cup {file.relativePath}]
                 ELSE read)

\* third pass: content matches
RECURSIVE ContentPass(_, _, _, _)
ContentPass(files, words, limit, acc) ==
  IF files = <<>> \/ Len(acc.results) >= limit THEN acc
  ELSE LET file == Head(files)
           matchIndex == FindFirstMatchIndex(file.content, words)
           read == [acc EXCEPT !.reads = @ + 1]
       IN ContentPass(Tail(files), words, limit,
            IF file.relativePath \in acc.seenPaths THEN acc
            ELSE IF ~file.readable THEN read
            ELSE IF MatchesAllWords(file.content, words) /\ matchIndex # -1
                 THEN [read EXCEPT
                         !.results =
                           Append(@, [type |-> "content",
                                      path |-> file.relativePath,
                                      name |-> file.name,
                                      snippet |-> Snippet(file.content,
                                                          matchIndex),
                                      line |-> LineNumber(file.content,
                                                          matchIndex)]),
                         !.seenPaths = @ \cup {file.relativePath}]
                 ELSE read)

\* the limit argument: a number, or left out
NoLimit == [given |-> FALSE, n |-> 0]
Limit(n) == [given |-> TRUE, n |-> n]

\* searchFiles; the value returned is results, listed and reads record what
\* the call did to the file system
SearchFiles(projectPath, query, limitArg) ==
  LET limit == IF limitArg.given THEN limitArg.n ELSE DefaultLimit
      none == [results |-> <<>>, seenPaths |-> {}, reads |-> 0]
  IN IF query = <<>> \/ Len(Trim(query)) = 0
     THEN [results |-> <<>>, listed |-> FALSE, reads |-> 0]
     ELSE LET searchTerm == Trim(ToLowerCase(query))
              searchWords == SplitWords(searchTerm, <<>>)
              mdFiles == GetAllMarkdownFiles(projectPath, <<>>)
              first == FilenamePass(mdFiles, searchWords, limit, none)
              second == TitlePass(mdFiles, searchWords, limit, first)
              third == ContentPass(mdFiles, searchWords, limit, second)
          IN [results |-> third.results,
              listed |-> projectPath.exists,
              reads |-> third.reads]

\* the registries as one value, so that the functions of the code compose
Reg == [clients |-> clients, watchers |-> watchers, openWatches |-> openWatches,
        debounceTimers |-> debounceTimers, liveTimers |-> liveTimers]

\* setTimeout returns a timer distinct from every timer that is still
\* scheduled or still referenced by the map; the map still holds the timer
\* being replaced when setTimeout is called
UsedTimerIds(live, m) == {t.id : t \in live} \cup Range(m)
FreshTimer(live, m) ==
  CHOOSE i \in TimerIds \ UsedTimerIds(live, m) :
    \A j \in TimerIds \ UsedTimerIds(live, m) : i <= j
HasFreeTimer(S) ==
  Cardinality({t.id : t \in S.liveTimers} \cup Range(S.debounceTimers))
    < MaxTimers

\* clearTimeout
ClearTimeout(live, id) == {t \in live : t.id # id}

\* variant: schedules the new timer without cancelling the pending one
NotifyClientsNoClear(S, p) ==
  LET id == FreshTimer(S.liveTimers, S.debounceTimers)
  IN [S EXCEPT !.liveTimers = @ \cup {[id |-> id, pid |-> p]},
               !.debounceTimers = MapSet(@, p, id)]

\* notifyClients, synchronous part: cancel the pending timer, schedule a new one
NotifyClients(S, p) ==
  LET live == IF p \in DOMAIN S.debounceTimers
              THEN ClearTimeout(S.liveTimers, S.debounceTimers[p])
              ELSE S.liveTimers
      id == FreshTimer(S.liveTimers, S.debounceTimers)
  IN [S EXCEPT !.liveTimers = live \cup {[id |-> id, pid |-> p]},
               !.debounceTimers = MapSet(@, p, id)]

\* variant: writes to every registered connection, writable or not
ReceiversNoWritableCheck(S, p, wr, fin) ==
  IF p \notin DOMAIN S.clients THEN <<>> ELSE S.clients[p]

\* variant: writes to the connections of every project
ReceiversAllProjects(S, p, wr, fin) ==
  SelectSeq([i \in 1..MaxConns |-> i],
            LAMBDA c : (\E q \in DOMAIN S.clients : c \in Range(S.clients[q]))
                       /\ wr[c] /\ ~fin[c])

\* variant: writes only to the connections that were registered when the
\* pending timer was first scheduled
ReceiversAtEvent(S, p, wr, fin) ==
  IF p \notin DOMAIN S.clients THEN <<>>
  ELSE SelectSeq(S.clients[p],
                 LAMBDA c : wr[c] /\ ~fin[c] /\ c \notin joinedPending[p])

\* notifyClients, timer callback: the connections that are written a reload
Receivers(S, p, wr, fin) ==
  IF p \notin DOMAIN S.clients THEN <<>>
  ELSE SelectSeq(S.clients[p], LAMBDA c : wr[c] /\ ~fin[c])

\* notifyClients, timer callback: effect on the registries
TimerCallback(S, t) ==
  LET S0 == [S EXCEPT !.liveTimers = @ \ {t}]
  IN IF t.pid \notin DOMAIN S.clients THEN S0
     ELSE [S0 EXCEPT !.debounceTimers = MapDelete(@, t.pid)]

\* client.write('data: reload\n\n') for each receiver in turn
RECURSIVE WriteReloads(_, _)
WriteReloads(o, rcv) ==
  IF rcv = <<>> THEN o
  ELSE WriteReloads([o EXCEPT ![Head(rcv)] = Append(@, "reload")], Tail(rcv))

\* variant: notifies for every named file, whatever its extension
WatchCallbackAnyFile(S, p, f) ==
  IF f.present /\ Len(f.name) > 0 THEN NotifyClients(S, p) ELSE S

\* the callback handed to fs.watch
WatchCallback(S, p, f) ==
  IF f.present /\ Len(f.name) > 0 /\ EndsWith(f.name, MdExt)
  THEN NotifyClients(S, p)
  ELSE S

\* variant: stores a handle although fs.watch threw
SetupWatcherStoreOnFail(S, p, dir, ok) ==
  IF p \in DOMAIN S.watchers THEN S
  ELSE [S EXCEPT !.watchers = MapSet(@, p, [dir |-> dir]),
                 !.openWatches[p] = IF ok THEN @ + 1 ELSE @]

\* variant: registers a watch without asking whether one is stored
SetupWatcherNoHasCheck(S, p, dir, ok) ==
  IF ok
  THEN [S EXCEPT !.watchers = MapSet(@, p, [dir |-> dir]),
                 !.openWatches[p] = @ + 1]
  ELSE S

\* setupWatcher; ok = FALSE when fs.watch throws
SetupWatcher(S, p, dir, ok) ==
  IF p \in DOMAIN S.watchers THEN S
  ELSE IF ok
       THEN [S EXCEPT !.watchers = MapSet(@, p, [dir |-> dir]),
                      !.openWatches[p] = @ + 1]
       ELSE S

\* addClient
AddClient(S, p, c) ==
  LET S1 == IF p \notin DOMAIN S.clients
            THEN [S EXCEPT !.clients = MapSet(@, p, <<>>)]
            ELSE S
  IN [S1 EXCEPT !.clients[p] = SetAdd(@, c)]

\* variant: deletes the connection but never closes the watcher
RemoveClientKeepWatcher(S, p, c) ==
  IF p \notin DOMAIN S.clients THEN S
  ELSE [S EXCEPT !.clients[p] = SetDelete(@, c)]

\* variant: closes the watcher without looking at the size of the set
RemoveClientNoSizeCheck(S, p, c) ==
  IF p \notin DOMAIN S.clients THEN S
  ELSE LET S1 == [S EXCEPT !.clients[p] = SetDelete(@, c)]
       IN IF p \in DOMAIN S1.watchers
          THEN [S1 EXCEPT !.openWatches[p] = @ - 1,
                          !.watchers = MapDelete(@, p)]
          ELSE S1

\* removeClient
RemoveClient(S, p, c) ==
  IF p \notin DOMAIN S.clients THEN S
  ELSE LET S1 == [S EXCEPT !.clients[p] = SetDelete(@, c)]
       IN IF Len(S1.clients[p]) = 0 /\ p \in DOMAIN S1.watchers
          THEN [S1 EXCEPT !.openWatches[p] = @ - 1,
                          !.watchers = MapDelete(@, p)]
          ELSE S1

\* registration order kept beside the registry: c joins p's subscribers
RegAdd(rb, S, p, c) ==
  LET members == IF p \in DOMAIN S.clients THEN Range(S.clients[p]) ELSE {}
  IN IF c \in members THEN rb
     ELSE [rb EXCEPT ![p] = @ \cup {<<a, c>> : a \in members}]

\* registration order kept beside the registry: c leaves p's subscribers
RegRemove(rb, p, c) ==
  [rb EXCEPT ![p] = {pr \in @ : pr[1] # c /\ pr[2] # c}]

\* late joiners kept beside the registry: c joins p's subscribers; it is a
\* late joiner when a debounce timer of p is pending at that moment
JoinAdd(jp, S, p, c) ==
  LET members == IF p \in DOMAIN S.clients THEN Range(S.clients[p]) ELSE {}
  IN IF c \notin members /\ (\E t \in S.liveTimers : t.pid = p)
     THEN [jp EXCEPT ![p] = @ \cup {c}]
     ELSE jp

\* late joiners kept beside the registry: c leaves p's subscribers
JoinRemove(jp, p, c) == [jp EXCEPT ![p] = @ \ {c}]

\* late joiners kept beside the registry: the timer of p fires
JoinFire(jp, p) == [jp EXCEPT ![p] = {}]

\* res.finished / res.writableEnded: set by res.end() only
Finished == [c \in Conns |-> status[c] = "ended"]

SetReg(S) ==
  /\ clients' = S.clients
  /\ watchers' = S.watchers
  /\ openWatches' = S.openWatches
  /\ debounceTimers' = S.debounceTimers
  /\ liveTimers' = S.liveTimers

InitServer ==
  /\ projects = [p \in {"p1"} |-> "d1"]
  /\ clients = EmptyMap
  /\ watchers = EmptyMap
  /\ openWatches = [p \in ProjectIds |-> 0]
  /\ debounceTimers = EmptyMap
  /\ liveTimers = {}
  /\ status = [c \in Conns |-> "idle"]
  /\ connProject = [c \in Conns |-> NoId]
  /\ writable = [c \in Conns |-> TRUE]
  /\ heartbeat = [c \in Conns |-> FALSE]
  /\ out = [c \in Conns |-> <<>>]
  /\ cleanups = [c \in Conns |-> 0]
  /\ burst = [p \in ProjectIds |-> 0]
  /\ regBefore = [p \in ProjectIds |-> {}]
  /\ joinedPending = [p \in ProjectIds |-> {}]
  /\ last = "none"

\* ---- inputs of the search: file names, file bodies, queries, trees ----
InMd == <<"i", "n", ".", "m", "d">>
GMd == <<"g", ".", "m", "d">>
BMd == <<"b", ".", "m", "d">>
AMd == <<"a", ".", "m", "d">>
CMd == <<"c", ".", "m", "d">>
UMd == <<"u", ".", "m", "d">>
InTxt == <<"i", "n", ".", "t", "x", "t">>
SubDir == <<"s">>
HiddenDir == <<".", "h">>
BodyPlain == <<"x">>
BodyTitleIn == <<"#", " ", "I", "n", " ", "G", "\n", "z", "z">>
BodyContentIn == <<"#", " ", "Z", "z", "\n", "f", "I", "n", " ", "d">>
BodyAll == <<"#", " ", "i", "n", "\n", "i", "n">>
BodyA == <<"#", " ", "A", "\n", "c", "o">>
BodyFind == <<"#", " ", "S", "e", "\n", "f", "i", " ", "m", "e">>
BodyDotted == <<CapitalIDot, CapitalIDot, "a", "\n", "z">>
QEmpty == <<>>
QSpace == <<" ">>
QBlank == <<"\t", "\n">>
QIn == <<"i", "n">>
QInPadded == <<" ", "I", "n", " ">>
QFi == <<"f", "i">>
QA == <<"a">>
QTwoWords == <<"z", "z", " ", "i", "n">>
QMd == <<"m", "d">>
QNone == <<"q">>
QFiMe == <<"m", "e", " ", " ", "f", "i">>
QZ == <<"z">>

File(name, content, readable) ==
  [name |-> name, isDir |-> FALSE, content |-> content, readable |-> readable]
Dir(name, listable, entries) ==
  [name |-> name, isDir |-> TRUE,
   dir |-> [exists |-> TRUE, listable |-> listable, entries |-> entries]]
Root(entries) == [exists |-> TRUE, listable |-> TRUE, entries |-> entries]
MissingRoot == [exists |-> FALSE, listable |-> FALSE, entries |-> <<>>]

\* a body match, a title match and filename matches, listed in that order,
\* beside entries the traversal leaves out and a file that cannot be read
RankTree ==
  Root(<<File(BMd, BodyContentIn, TRUE),
         File(UMd, BodyAll, FALSE),
         File(GMd, BodyTitleIn, TRUE),
         File(InTxt, BodyAll, TRUE),
         Dir(HiddenDir, TRUE, <<File(InMd, BodyAll, TRUE)>>),
         Dir(NodeModules, TRUE, <<File(InMd, BodyAll, TRUE)>>),
         File(InMd, BodyPlain, TRUE),
         Dir(SubDir, TRUE, <<File(InMd, BodyAll, TRUE)>>)>>)

\* a.md and b.md of the end-to-end scenario
LineTree == Root(<<File(AMd, BodyA, TRUE), File(BMd, BodyFind, TRUE)>>)

\* a body with U+0130 before the match
DottedTree ==
  Root(<<File(CMd, BodyDotted, TRUE),
         Dir(SubDir, FALSE, <<File(InMd, BodyAll, TRUE)>>)>>)

Trees == {RankTree, LineTree, DottedTree, Root(<<>>), MissingRoot}
Queries == {QEmpty, QSpace, QBlank, QIn, QInPadded, QFi, QA, QTwoWords, QMd,
            QNone, QFiMe, QZ}
Limits == {NoLimit} \cup {Limit(n) : n \in 0..MaxLimit}

\* ---- inputs of the path guard ----
RootA == <<Slash, "a">>
RootAA == <<Slash, "a", Slash, "a">>
RootFs == <<Slash>>
RootRelative == <<"a">>
Roots == {RootA, RootAA, RootFs, RootRelative}
DotsName == <<Dot, Dot, "n">>
SegmentChoices == {DotDot, <<Dot>>, <<"a">>, DotsName, <<>>}
PathArgs ==
  {JoinSegments(segs) :
     segs \in UNION {[1..n -> SegmentChoices] : n \in 0..MaxSegments}}

\* ---- inputs of the directory scan ----
TDir == <<"t">>
EDir == <<"e">>
HiddenMd == <<".", "x", ".", "m", "d">>

\* Markdown and other files, nested, hidden, empty and node_modules
\* directories
ScanTree ==
  Root(<<File(AMd, BodyA, TRUE),
         File(InTxt, BodyPlain, TRUE),
         File(HiddenMd, BodyPlain, TRUE),
         Dir(SubDir, TRUE,
             <<File(InMd, BodyAll, TRUE),
               Dir(TDir, TRUE, <<File(GMd, BodyPlain, TRUE)>>),
               Dir(HiddenDir, TRUE, <<File(AMd, BodyA, TRUE)>>),
               File(InTxt, BodyPlain, TRUE)>>),
         Dir(HiddenDir, TRUE,
             <<File(InMd, BodyAll, TRUE),
               Dir(SubDir, TRUE, <<File(BMd, BodyFind, TRUE)>>)>>),
         Dir(NodeModules, TRUE, <<File(InMd, BodyAll, TRUE)>>),
         Dir(EDir, TRUE, <<>>)>>)

\* a directory below the root that cannot be listed
LockedTree ==
  Root(<<File(AMd, BodyA, TRUE),
         Dir(SubDir, TRUE,
             <<Dir(TDir, FALSE, <<>>), File(InMd, BodyAll, TRUE)>>)>>)

ScanTrees == {ScanTree, LockedTree, RankTree, Root(<<>>), MissingRoot}

\* subPath of the /p/:id route: the part of the URL after the project id
SubPathRoot == <<Slash>>
SubPathS == <<Slash, "s">>
SubPathSSlash == <<Slash, "s", Slash>>
SubPathST == <<Slash, "s", Slash, "t">>
SubPathHidden == <<Slash, ".", "h">>
SubPathHiddenS == <<Slash, ".", "h", Slash, "s">>
SubPathModules == <<Slash>> \o NodeModules
SubPathE == <<Slash, "e">>
SubPathMissing == <<Slash, "x">>
SubPaths == {SubPathRoot, SubPathS, SubPathSSlash, SubPathST, SubPathHidden,
             SubPathHiddenS, SubPathModules, SubPathE, SubPathMissing}

\* no pure function is under study while the server runs
NoCall == [fn |-> "none"]

Init == InitServer /\ call = NoCall

\* ---- the server ----

\* variant: registers the connection without writing the acknowledgment
ReloadRequestNoAck(c, pid, ok) ==
  /\ status[c] = "idle"
  /\ IF pid = NoId
     THEN /\ status' = [status EXCEPT ![c] = "ended"]
          /\ writable' = [writable EXCEPT ![c] = FALSE]
          /\ last' = "none"
          /\ UNCHANGED <<clients, watchers, openWatches, debounceTimers,
                         liveTimers, connProject, heartbeat, out, regBefore,
                         joinedPending>>
     ELSE LET S1 == AddClient(Reg, pid, c)
              known == pid \in DOMAIN projects
              S2 == IF known THEN SetupWatcher(S1, pid, projects[pid], ok)
                    ELSE S1
              attempted == known /\ pid \notin DOMAIN S1.watchers
          IN /\ out' = out
             /\ heartbeat' = [heartbeat EXCEPT ![c] = TRUE]
             /\ SetReg(S2)
             /\ regBefore' = RegAdd(regBefore, Reg, pid, c)
             /\ joinedPending' = JoinAdd(joinedPending, Reg, pid, c)
             /\ status' = [status EXCEPT ![c] = "open"]
             /\ connProject' = [connProject EXCEPT ![c] = pid]
             /\ last' = IF attempted /\ ~ok THEN "watchFailed" ELSE "none"
             /\ UNCHANGED writable
  /\ UNCHANGED <<configVars, pureVars, cleanups, burst>>

\* GET /__reload?projectId=pid on a new connection c
ReloadRequest(c, pid, ok) ==
  /\ status[c] = "idle"
  /\ IF pid = NoId
     THEN /\ status' = [status EXCEPT ![c] = "ended"]
          /\ writable' = [writable EXCEPT ![c] = FALSE]
          /\ last' = "none"
          /\ UNCHANGED <<clients, watchers, openWatches, debounceTimers,
                         liveTimers, connProject, heartbeat, out, regBefore,
                         joinedPending>>
     ELSE LET S1 == AddClient(Reg, pid, c)
              known == pid \in DOMAIN projects
              S2 == IF known THEN SetupWatcher(S1, pid, projects[pid], ok)
                    ELSE S1
              attempted == known /\ pid \notin DOMAIN S1.watchers
          IN /\ out' = [out EXCEPT ![c] = Append(@, "connected")]
             /\ heartbeat' = [heartbeat EXCEPT ![c] = TRUE]
             /\ SetReg(S2)
             /\ regBefore' = RegAdd(regBefore, Reg, pid, c)
             /\ joinedPending' = JoinAdd(joinedPending, Reg, pid, c)
             /\ status' = [status EXCEPT ![c] = "open"]
             /\ connProject' = [connProject EXCEPT ![c] = pid]
             /\ last' = IF attempted /\ ~ok THEN "watchFailed" ELSE "none"
             /\ UNCHANGED writable
  /\ UNCHANGED <<configVars, pureVars, cleanups, burst>>

\* the peer goes away; the close/error events are delivered later
Disconnect(c, w) ==
  /\ status[c] = "open"
  /\ status' = [status EXCEPT ![c] = "closing"]
  /\ writable' = [writable EXCEPT ![c] = w]
  /\ last' = "none"
  /\ UNCHANGED <<configVars, pureVars, clients, watchers, openWatches,
                 debounceTimers, liveTimers, connProject, heartbeat, out, cleanups, burst,
                 regBefore, joinedPending>>

\* variant: the cleanup leaves the heartbeat interval scheduled
CleanupKeepHeartbeat(c) ==
  /\ status[c] = "closing"
  /\ cleanups[c] < NumCleanupHandlers
  /\ SetReg(RemoveClient(Reg, connProject[c], c))
  /\ regBefore' = RegRemove(regBefore, connProject[c], c)
  /\ joinedPending' = JoinRemove(joinedPending, connProject[c], c)
  /\ heartbeat' = heartbeat
  /\ cleanups' = [cleanups EXCEPT ![c] = @ + 1]
  /\ last' = IF watchers' # watchers THEN "closed" ELSE "none"
  /\ UNCHANGED <<configVars, pureVars, status, connProject, writable, out,
                 burst>>

\* one of the handlers registered on req 'close', res 'close', res 'error'
Cleanup(c) ==
  /\ status[c] = "closing"
  /\ cleanups[c] < NumCleanupHandlers
  /\ SetReg(RemoveClient(Reg, connProject[c], c))
  /\ regBefore' = RegRemove(regBefore, connProject[c], c)
  /\ joinedPending' = JoinRemove(joinedPending, connProject[c], c)
  /\ heartbeat' = [heartbeat EXCEPT ![c] = FALSE]
  /\ cleanups' = [cleanups EXCEPT ![c] = @ + 1]
  /\ last' = IF watchers' # watchers THEN "closed" ELSE "none"
  /\ UNCHANGED <<configVars, pureVars, status, connProject, writable, out,
                 burst>>

\* the heartbeat interval of connection c elapses
Heartbeat(c) ==
  /\ heartbeat[c]
  /\ IF Finished[c]
     THEN /\ heartbeat' = [heartbeat EXCEPT ![c] = FALSE]
          /\ out' = out
     ELSE /\ Len(out[c]) < MaxOut
          /\ out' = [out EXCEPT ![c] = Append(@, "ping")]
          /\ heartbeat' = heartbeat
  /\ last' = "none"
  /\ UNCHANGED <<configVars, pureVars, clients, watchers, openWatches,
                 debounceTimers, liveTimers, status, connProject, writable, cleanups, burst,
                 regBefore, joinedPending>>

\* ---- watcher and timer callbacks (both specifications) ----

Qualifies(f) == f.present /\ EndsWith(f.name, MdExt)

\* an open watch of project p reports a change of file f
FsEvent(p, f) ==
  /\ openWatches[p] > 0
  /\ HasFreeTimer(Reg)
  /\ (Qualifies(f) => burst[p] < MaxBurst)
  /\ SetReg(WatchCallback(Reg, p, f))
  /\ burst' = [burst EXCEPT ![p] = IF Qualifies(f) THEN @ + 1 ELSE @]
  /\ last' = IF Qualifies(f) THEN "none" ELSE "ignored"
  /\ UNCHANGED <<configVars, pureVars, connVars, writable, out, regBefore,
                 joinedPending>>

\* the debounce timer t fires
FireTimer(t) ==
  /\ t \in liveTimers
  /\ LET rcv == Receivers(Reg, t.pid, writable, Finished)
     IN /\ \A c \in Range(rcv) : Len(out[c]) < MaxOut
        /\ out' = WriteReloads(out, rcv)
  /\ SetReg(TimerCallback(Reg, t))
  /\ burst' = [burst EXCEPT ![t.pid] = 0]
  /\ joinedPending' = JoinFire(joinedPending, t.pid)
  /\ last' = LET rcv == Receivers(Reg, t.pid, writable, Finished)
                 registered == IF t.pid \in DOMAIN clients
                               THEN Range(clients[t.pid]) ELSE {}
             IN IF Range(rcv) \cap joinedPending[t.pid] # {} THEN "late"
                ELSE IF registered # Range(rcv) THEN "skipped"
                ELSE "none"
  /\ UNCHANGED <<configVars, pureVars, connVars, writable, regBefore>>

\* ---- project API ----

\* POST /api/projects
AddProject(p, d) ==
  /\ p \notin DOMAIN projects
  /\ projects' = MapSet(projects, p, d)
  /\ last' = "none"
  /\ UNCHANGED <<pureVars, clients, watchers, openWatches, debounceTimers,
                 liveTimers, connVars, writable, out, burst, regBefore,
                 joinedPending>>

\* PATCH /api/projects/:id
UpdateProject(p, d) ==
  /\ p \in DOMAIN projects
  /\ projects' = [projects EXCEPT ![p] = d]
  /\ last' = "none"
  /\ UNCHANGED <<pureVars, clients, watchers, openWatches, debounceTimers,
                 liveTimers, connVars, writable, out, burst, regBefore,
                 joinedPending>>

\* DELETE /api/projects/:id
DeleteProject(p) ==
  /\ p \in DOMAIN projects
  /\ projects' = MapDelete(projects, p)
  /\ last' = "none"
  /\ UNCHANGED <<pureVars, clients, watchers, openWatches, debounceTimers,
                 liveTimers, connVars, writable, out, burst, regBefore,
                 joinedPending>>

Next ==
  \/ \E c \in Conns, pid \in ProjectIds \cup {NoId}, ok \in BOOLEAN :
       ReloadRequest(c, pid, ok)
  \/ \E c \in Conns, w \in BOOLEAN : Disconnect(c, w)
  \/ \E c \in Conns : Cleanup(c)
  \/ \E c \in Conns : Heartbeat(c)
  \/ \E p \in ProjectIds, f \in Filenames : FsEvent(p, f)
  \/ \E i \in TimerIds, p \in ProjectIds : FireTimer([id |-> i, pid |-> p])
  \/ \E p \in ProjectIds, d \in SpecDirs : AddProject(p, d)
  \/ \E p \in ProjectIds, d \in SpecDirs : UpdateProject(p, d)
  \/ \E p \in ProjectIds : DeleteProject(p)

Spec == Init /\ [][Next]_vars

\* the server with a single connection and projects that can be moved
PathNext ==
  \/ \E pid \in ProjectIds \cup {NoId}, ok \in BOOLEAN :
       ReloadRequest(1, pid, ok)
  \/ \E w \in BOOLEAN : Disconnect(1, w)
  \/ Cleanup(1)
  \/ Heartbeat(1)
  \/ \E p \in ProjectIds, f \in Filenames : FsEvent(p, f)
  \/ \E i \in TimerIds, p \in ProjectIds : FireTimer([id |-> i, pid |-> p])
  \/ \E p \in ProjectIds, d \in Dirs : AddProject(p, d)
  \/ \E p \in ProjectIds, d \in Dirs : UpdateProject(p, d)
  \/ \E p \in ProjectIds : DeleteProject(p)

PathSpec == Init /\ [][PathNext]_vars

\* ---- lib/utils.js used as a library ----

ApiAddClient(p, c) ==
  /\ SetReg(AddClient(Reg, p, c))
  /\ regBefore' = RegAdd(regBefore, Reg, p, c)
  /\ last' = "none"
  /\ UNCHANGED <<configVars, pureVars, connVars, writable, out, burst,
                 joinedPending>>

ApiRemoveClient(p, c) ==
  /\ SetReg(RemoveClient(Reg, p, c))
  /\ regBefore' = RegRemove(regBefore, p, c)
  /\ last' = IF watchers' # watchers THEN "closed" ELSE "none"
  /\ UNCHANGED <<configVars, pureVars, connVars, writable, out, burst,
                 joinedPending>>

ApiSetupWatcher(p, d, ok) ==
  /\ SetReg(SetupWatcher(Reg, p, d, ok))
  /\ last' = IF p \notin DOMAIN watchers /\ ~ok THEN "watchFailed" ELSE "none"
  /\ UNCHANGED <<configVars, pureVars, connVars, writable, out, burst,
                 regBefore, joinedPending>>

ApiNotifyClients(p) ==
  /\ HasFreeTimer(Reg)
  /\ burst[p] < MaxBurst
  /\ SetReg(NotifyClients(Reg, p))
  /\ burst' = [burst EXCEPT ![p] = @ + 1]
  /\ last' = "none"
  /\ UNCHANGED <<configVars, pureVars, connVars, writable, out, regBefore,
                 joinedPending>>

ApiNext ==
  \/ \E p \in ProjectIds, c \in Conns : ApiAddClient(p, c)
  \/ \E p \in ProjectIds, c \in Conns : ApiRemoveClient(p, c)
  \/ \E p \in ProjectIds, d \in Dirs, ok \in BOOLEAN : ApiSetupWatcher(p, d, ok)
  \/ \E p \in ProjectIds : ApiNotifyClients(p)
  \/ \E p \in ProjectIds, f \in Filenames : FsEvent(p, f)
  \/ \E i \in TimerIds, p \in ProjectIds : FireTimer([id |-> i, pid |-> p])

ApiSpec == Init /\ [][ApiNext]_vars

\* ---- lib/utils.js: searchFiles called with any of the inputs ----

SearchInit ==
  /\ InitServer
  /\ call \in [fn : {"searchFiles"}, projectPath : Trees, query : Queries,
               limit : Limits, done : {FALSE},
               ret : {[results |-> <<>>, listed |-> FALSE, reads |-> 0]}]

SearchCall ==
  /\ call.fn = "searchFiles"
  /\ ~call.done
  /\ call' = [call EXCEPT
                !.done = TRUE,
                !.ret = SearchFiles(call.projectPath, call.query, call.limit)]
  /\ UNCHANGED <<configVars, clients, watchers, openWatches, debounceTimers,
                 liveTimers, connVars, writable, out, burst, regBefore,
                 joinedPending, last>>

SearchNext == SearchCall

SearchSpec == SearchInit /\ [][SearchNext]_vars

\* ---- lib/utils.js: isPathWithinProject called with any of the inputs ----

GuardInit ==
  /\ InitServer
  /\ call \in [fn : {"isPathWithinProject"}, projectPath : Roots,
               filePath : PathArgs, done : {FALSE}, ret : {FALSE}]

GuardCall ==
  /\ call.fn = "isPathWithinProject"
  /\ ~call.done
  /\ call' = [call EXCEPT
                !.done = TRUE,
                !.ret = IsPathWithinProject(call.projectPath, call.filePath)]
  /\ UNCHANGED <<configVars, clients, watchers, openWatches, debounceTimers,
                 liveTimers, connVars, writable, out, burst, regBefore,
                 joinedPending, last>>

GuardNext == GuardCall

GuardSpec == GuardInit /\ [][GuardNext]_vars

\* ---- the /p/:id route calling getMarkdownFiles ----

\* the arguments the route passes: the directory at project.path + subPath
\* and subPath itself as the prefix, the empty string for the root
ScanDir ==
  Lookup(call.projectPath,
         NormalizeSegments(SplitSegments(call.subPath, <<>>), FALSE, <<>>))
ScanPrefix == IF call.subPath = SubPathRoot THEN <<>> ELSE call.subPath

ScanInit ==
  /\ InitServer
  /\ call \in [fn : {"getMarkdownFiles"}, projectPath : ScanTrees,
               subPath : SubPaths, recursive : BOOLEAN, done : {FALSE},
               ret : {[threw |-> FALSE, files |-> <<>>]}]

ScanCall ==
  /\ call.fn = "getMarkdownFiles"
  /\ ~call.done
  /\ call' = [call EXCEPT
                !.done = TRUE,
                !.ret = IF ScanThrows(ScanDir, call.recursive)
                        THEN [threw |-> TRUE, files |-> <<>>]
                        ELSE [threw |-> FALSE,
                              files |-> GetMarkdownFiles(ScanDir, ScanPrefix,
                                                         call.recursive)]]
  /\ UNCHANGED <<configVars, clients, watchers, openWatches, debounceTimers,
                 liveTimers, connVars, writable, out, burst, regBefore,
                 joinedPending, last>>

ScanNext == ScanCall

ScanSpec == ScanInit /\ [][ScanNext]_vars

\* ---- vocabulary of the properties ----

\* subscribersOf(p)
Subs(p) == IF p \in DOMAIN clients THEN Range(clients[p]) ELSE {}
\* subscribersOf(p) after the step
SubsNext(p) == IF p \in DOMAIN clients' THEN Range(clients'[p]) ELSE {}
\* the scheduled debounce timers of project p
LiveFor(p) == {t \in liveTimers : t.pid = p}
\* p's subscriber set exists and has been drained
Drained(p) == p \in DOMAIN clients /\ clients[p] = <<>>
HasReload(c) == \E i \in DOMAIN out[c] : out[c][i] = "reload"

\* ---- C1 ----
\* C1: a burst of N >= 1 qualifying events of project p, none of them later
\* than the firing of the timer set by the one before, is answered by exactly
\* one scheduled timer, hence by one broadcast: while the burst is open there
\* is one live timer of p (not N, not zero), and none when no burst is open.
C1_DebounceCoalescing ==
  \A p \in ProjectIds :
    Cardinality(LiveFor(p)) = IF burst[p] > 0 THEN 1 ELSE 0

C1_Witness ==
  \E p \in ProjectIds : burst[p] >= 2 /\ Cardinality(LiveFor(p)) = 1

\* ---- C2 ----
\* C2 as stated: a watch handle exists for p if and only if p has a subscriber.
C2_WatcherIffSubscriber ==
  \A p \in ProjectIds : (p \in DOMAIN watchers) <=> (Subs(p) # {})

\* C2 amended: a watch handle exists for p only if p has a subscriber, and
\* the map's handle is the one open OS registration of p.
C2_WatcherOnlyWithSubscriber ==
  \A p \in ProjectIds :
    /\ (p \in DOMAIN watchers) => (Subs(p) # {})
    /\ openWatches[p] = IF p \in DOMAIN watchers THEN 1 ELSE 0

C2_Witness ==
  \E c, d \in Conns :
    /\ c # d
    /\ connProject[c] = connProject[d]
    /\ cleanups[c] >= 1
    /\ d \in Subs(connProject[d])
    /\ connProject[d] \in DOMAIN watchers

\* ---- C3 ----
\* C3: a /__reload request whose project id is not configured ends the stream:
\* nothing is written to the connection (no connected, no reload) and the
\* connection is registered under no project.
C3_UnknownProjectEndsStream ==
  [][\A c \in Conns :
       (/\ status[c] = "idle"
        /\ status'[c] # "idle"
        /\ connProject'[c] \notin DOMAIN projects)
       => (/\ status'[c] = "ended"
           /\ out'[c] = <<>>
           /\ \A p \in ProjectIds : c \notin Subs(p)')]_vars

\* ---- C4 ----
\* C4: a step that takes p's subscriber set from non-empty to empty leaves
\* subscribersOf(p) empty and no watch handle of p, in the map or open.
C4_DrainRemovesWatcher ==
  [][\A p \in ProjectIds :
       (Subs(p) # {} /\ Subs(p)' = {})
       => (/\ Drained(p)'
           /\ p \notin DOMAIN watchers'
           /\ openWatches'[p] = 0)]_vars

C4_Witness ==
  \E c \in Conns :
    /\ cleanups[c] >= 1
    /\ HasReload(c)
    /\ Drained(connProject[c])
    /\ connProject[c] \notin DOMAIN watchers

\* ---- C5 ----
\* C5 as stated: the teardown of p's watcher (handle closed and discarded)
\* happens only in a step that takes p's subscriber set from non-empty to
\* empty, never in a removal made when the set was already empty.
C5_TeardownOnlyOnDrain ==
  [][\A p \in ProjectIds :
       (p \in DOMAIN watchers /\ p \notin DOMAIN watchers')
       => (Subs(p) # {} /\ Subs(p)' = {})]_vars

\* C5 amended: the teardown of p's watcher happens only in a removal that
\* leaves p's subscriber set empty, whether or not the set was empty before,
\* and it closes the one open handle of p exactly once.
C5_TeardownOnlyLeavingEmpty ==
  [][\A p \in ProjectIds :
       (p \in DOMAIN watchers /\ p \notin DOMAIN watchers')
       => (/\ last' = "closed"
           /\ Drained(p)'
           /\ openWatches[p] = 1
           /\ openWatches'[p] = 0)]_vars

C5_Witness ==
  /\ last = "closed"
  /\ \E p \in ProjectIds :
       /\ Drained(p)
       /\ p \notin DOMAIN watchers
       /\ openWatches[p] = 0

\* ---- C6 ----
\* C6: the second and the third invocation of a connection's cleanup change
\* neither the subscriber sets, nor the watchers, nor the debounce timers.
C6_CleanupIdempotent ==
  [][\A c \in Conns :
       (cleanups[c] >= 1 /\ cleanups'[c] > cleanups[c])
       => UNCHANGED <<clients, watchers, openWatches, debounceTimers,
                      liveTimers>>]_vars

C6_Witness ==
  \E c, d \in Conns :
    /\ c # d
    /\ cleanups[c] >= 2
    /\ connProject[c] = connProject[d]
    /\ status[d] = "open"
    /\ d \in Subs(connProject[c])
    /\ connProject[c] \in DOMAIN watchers

\* ---- C7 ----
\* a debounce timer of p fires in this step
Fired(p) == Cardinality(LiveFor(p)') < Cardinality(LiveFor(p))

\* C7 as stated: when p's timer fires, exactly one reload is written to every
\* connection registered for p and none to any other connection.
C7_ReloadToEveryRegistered ==
  [][\A p \in ProjectIds :
       Fired(p) =>
         \A c \in Conns :
           out'[c] = IF c \in Subs(p) THEN Append(out[c], "reload")
                     ELSE out[c]]_vars

\* C7 amended: when p's timer fires, exactly one reload is written to every
\* connection registered for p that is writable and not finished, and none to
\* any other connection.
C7_ReloadToEveryWritableRegistered ==
  [][\A p \in ProjectIds :
       Fired(p) =>
         \A c \in Conns :
           out'[c] = IF c \in Subs(p) /\ writable[c] /\ ~Finished[c]
                     THEN Append(out[c], "reload")
                     ELSE out[c]]_vars

C7_Witness ==
  \E c, d \in Conns :
    /\ c # d
    /\ connProject[c] = connProject[d]
    /\ out[c] = <<"connected", "reload">>
    /\ out[d] = <<"connected", "reload">>

\* ---- C8 ----
\* C8: once p's last subscriber has been removed, no watch handle of p is left
\* and no debounce timer of p is pending.
C8_NothingOutlivesTeardown ==
  \A p \in ProjectIds :
    Drained(p) =>
      /\ p \notin DOMAIN watchers
      /\ openWatches[p] = 0
      /\ LiveFor(p) = {}
      /\ p \notin DOMAIN debounceTimers

\* ---- C9 ----
\* C9: a watch event whose filename is missing or does not end in .md starts
\* no timer, resets none and writes nothing; a timer of p is started only by
\* an event of p that carries a name ending in .md.
C9_OnlyMarkdownNotifies ==
  [][/\ (last' = "ignored") =>
          UNCHANGED <<liveTimers, debounceTimers, out, burst>>
     /\ \A p \in ProjectIds :
          (LiveFor(p) = {} /\ LiveFor(p)' # {}) => burst'[p] = burst[p] + 1
    ]_vars

C9_Witness ==
  /\ last = "ignored"
  /\ \E p \in ProjectIds :
       /\ openWatches[p] > 0
       /\ Subs(p) # {}
       /\ LiveFor(p) = {}

\* ---- C10 ----
\* C10: when fs.watch throws while connection c subscribes to p, no handle is
\* stored for p, c is registered for p, and the subscribers, watchers and
\* timers of every other project stay as they were.
C10_WatchFailureAbsorbed ==
  [][(last' = "watchFailed") =>
       \E c \in Conns :
         /\ status[c] = "idle"
         /\ status'[c] = "open"
         /\ c \in SubsNext(connProject'[c])
         /\ connProject'[c] \notin DOMAIN watchers'
         /\ openWatches'[connProject'[c]] = 0
         /\ UNCHANGED <<watchers, openWatches, debounceTimers, liveTimers>>
         /\ \A q \in ProjectIds \ {connProject'[c]} :
              /\ Subs(q)' = Subs(q)
              /\ (q \in DOMAIN clients') <=> (q \in DOMAIN clients)]_vars

C10_Witness ==
  /\ last = "watchFailed"
  /\ \E c \in Conns, q \in ProjectIds :
       /\ status[c] = "open"
       /\ c \in Subs(connProject[c])
       /\ connProject[c] \in DOMAIN projects
       /\ connProject[c] \notin DOMAIN watchers
       /\ q # connProject[c]
       /\ q \in DOMAIN watchers
       /\ Subs(q) # {}

\* ---- C11 ----
\* connection c subscribes to project p in this step
Subscribes(c, p) ==
  status[c] = "idle" /\ status'[c] = "open" /\ connProject'[c] = p

\* C11: a subscription to a project that already has a watch handle registers
\* nothing and leaves the stored handle as it is, and no project ever has
\* more than one open OS watch registration.
C11_EnsureWatchingIdempotent ==
  [][\A p \in ProjectIds :
       /\ openWatches'[p] <= 1
       /\ \A c \in Conns :
            (Subscribes(c, p) /\ p \in DOMAIN watchers)
            => (/\ p \in DOMAIN watchers'
                /\ watchers'[p] = watchers[p]
                /\ openWatches'[p] = openWatches[p])]_vars

C11_Witness ==
  \E c, d \in Conns :
    /\ c # d
    /\ status[c] = "open" /\ status[d] = "open"
    /\ connProject[c] = connProject[d]
    /\ connProject[c] \in DOMAIN projects
    /\ Subs(connProject[c]) = {c, d}
    /\ connProject[c] \in DOMAIN watchers
    /\ openWatches[connProject[c]] = 1

\* ---- C12 ----
\* C12: no project has more than one live debounce timer, and a qualifying
\* event of p that arrives while p's timer is pending leaves exactly one live
\* timer of p, which is a new timer and the one the map holds; the timer that
\* was pending is no longer live.
C12_OneLiveTimerPerProject ==
  [][\A p \in ProjectIds :
       /\ Cardinality(LiveFor(p)') <= 1
       /\ (LiveFor(p) # {} /\ burst'[p] = burst[p] + 1)
          => (/\ Cardinality(LiveFor(p)') = 1
              /\ LiveFor(p)' \cap LiveFor(p) = {}
              /\ p \in DOMAIN debounceTimers'
              /\ LiveFor(p)' = {[id |-> debounceTimers'[p], pid |-> p]})]_vars

C12_Witness ==
  \E p \in ProjectIds :
    /\ burst[p] = MaxBurst
    /\ Subs(p) # {}
    /\ p \in DOMAIN debounceTimers
    /\ LiveFor(p) = {[id |-> debounceTimers[p], pid |-> p]}

\* ---- C13 ----
\* the step is an event, a firing, a subscription or a disconnect of project p
StepOf(p) ==
  \/ burst'[p] # burst[p]
  \/ \E c \in Conns :
       \/ Subscribes(c, p)
       \/ status[c] = "open" /\ status'[c] = "closing" /\ connProject[c] = p
       \/ cleanups'[c] > cleanups[c] /\ connProject[c] = p

WatchOf(p) == IF p \in DOMAIN watchers THEN {watchers[p]} ELSE {}
TimerOf(p) == IF p \in DOMAIN debounceTimers THEN {debounceTimers[p]} ELSE {}

\* the step changes the subscriber set, the watch handle or the timer of q
Touched(q) ==
  \/ Subs(q)' # Subs(q)
  \/ (q \in DOMAIN clients') # (q \in DOMAIN clients)
  \/ WatchOf(q)' # WatchOf(q)
  \/ openWatches'[q] # openWatches[q]
  \/ LiveFor(q)' # LiveFor(q)
  \/ TimerOf(q)' # TimerOf(q)

\* C13: a step of project p leaves the subscriber set, the watch handle and
\* the pending timer of every other project as they were, and a broadcast of
\* p writes one reload to connections registered under p and to no other.
C13_ProjectIndependence ==
  [][\A p \in ProjectIds :
       /\ StepOf(p) => \A q \in ProjectIds \ {p} : ~Touched(q)
       /\ Fired(p) =>
            \A c \in Conns :
              out'[c] # out[c]
              => (c \in Subs(p) /\ out'[c] = Append(out[c], "reload"))]_vars

C13_Witness ==
  \E c, d \in Conns :
    /\ connProject[c] # connProject[d]
    /\ status[c] = "open" /\ status[d] = "open"
    /\ c \in Subs(connProject[c]) /\ d \in Subs(connProject[d])
    /\ connProject[c] \in DOMAIN watchers
    /\ connProject[d] \in DOMAIN watchers
    /\ writable[d]
    /\ out[c] = <<"connected", "reload">>
    /\ out[d] = <<"connected">>

\* ---- C14 ----
\* C14: the connections written by one broadcast of p are written in the
\* order in which they were registered under p: of two receivers, the one
\* written first was registered first, whatever was removed and added again
\* in between.
C14_BroadcastInRegistrationOrder ==
  [][\A p \in ProjectIds :
       Fired(p) =>
         LET rcv == Receivers(Reg, p, writable, Finished)
         IN \A i, j \in DOMAIN rcv :
              i < j => <<rcv[i], rcv[j]>> \in regBefore[p]]_vars

C14_Witness ==
  \E p, q \in ProjectIds :
    /\ p \in DOMAIN clients /\ q \in DOMAIN clients
    /\ clients[p] = <<2, 1>>
    /\ clients[q] = <<1, 2>>
    /\ regBefore[p] = {<<2, 1>>}
    /\ LiveFor(p) = {}
    /\ out[1] = <<"reload", "reload">>
    /\ out[2] = <<"reload", "reload">>

\* ---- C15 ----
\* C15: the first event written to a connection is the connected
\* acknowledgment and it is written once; a connection that is registered
\* under a project, or whose heartbeat is scheduled, has been written it.
C15_ConnectedFirst ==
  \A c \in Conns :
    /\ out[c] # <<>> => out[c][1] = "connected"
    /\ \A i \in DOMAIN out[c] : i > 1 => out[c][i] # "connected"
    /\ ((\E p \in ProjectIds : c \in Subs(p)) \/ heartbeat[c])
       => out[c] # <<>>

C15_Witness ==
  \E c, d \in Conns :
    /\ out[c] = <<"connected", "ping">>
    /\ out[d] = <<"connected", "reload">>
    /\ c \in Subs(connProject[c])
    /\ d \in Subs(connProject[d])

\* ---- C16 ----
\* searchFiles has returned
Searched == call.fn = "searchFiles" /\ call.done
\* the query is empty or holds whitespace only
IsBlank(query) == \A i \in DOMAIN query : query[i] \in Whitespace
\* the largest number of results the call may return
Cap == IF call.limit.given THEN call.limit.n ELSE DefaultLimit

\* C16: searchFiles returns at most limit results (15 when no limit is given)
\* for every tree, query and limit, and for an empty or whitespace-only
\* query it returns the empty sequence without listing a directory or
\* reading a file.
C16_AtMostLimitAndBlankIsEmpty ==
  Searched =>
    /\ Len(call.ret.results) <= Cap
    /\ IsBlank(call.query) =>
         /\ call.ret.results = <<>>
         /\ ~call.ret.listed
         /\ call.ret.reads = 0

C16_Witness ==
  /\ Searched
  /\ call.projectPath = RankTree
  /\ call.query = QIn
  /\ call.limit = Limit(3)
  /\ Len(call.ret.results) = 3
  /\ call.ret.reads > 0

\* ---- C17 ----
Rank(type) ==
  CASE type = "filename" -> 1 [] type = "title" -> 2 [] type = "content" -> 3

\* the words of the query, as the search compares them
QueryWords == SplitWords(Trim(ToLowerCase(call.query)), <<>>)

\* C17: in every result sequence the filename matches come first, then the
\* title matches, then the content matches, and a reported file whose name
\* holds every query word is reported as a filename match, whatever its
\* title and body hold.
C17_RankingOrder ==
  Searched =>
    LET rs == call.ret.results
    IN /\ \A i, j \in DOMAIN rs :
            i < j => Rank(rs[i].type) <= Rank(rs[j].type)
       /\ \A i \in DOMAIN rs :
            MatchesAllWords(rs[i].name, QueryWords) => rs[i].type = "filename"

C17_Witness ==
  /\ Searched
  /\ call.projectPath = RankTree
  /\ Len(call.ret.results) = 4
  /\ call.ret.results[1].type = "filename"
  /\ call.ret.results[2].type = "filename"
  /\ call.ret.results[2].path = SubDir \o <<Slash>> \o InMd
  /\ call.ret.results[3].type = "title"
  /\ call.ret.results[4].type = "content"

\* ---- C18 ----
\* the body of the file reported under path
BodyOf(path) ==
  LET files == GetAllMarkdownFiles(call.projectPath, <<>>)
      k == CHOOSE i \in DOMAIN files : files[i].relativePath = path
  IN files[k].content

\* word w occurs in body at offset i, whatever the case of the letters
OccursAt(body, w, i) ==
  \E n \in 1..(Len(body) - i) : ToLowerCase(SubSeq(body, i + 1, i + n)) = w

\* the smallest offset of body at which a query word occurs
EarliestOccurrence(body, words) ==
  LET offsets == {i \in 0..(Len(body) - 1) :
                    \E k \in DOMAIN words : OccursAt(body, words[k], i)}
  IN CHOOSE i \in offsets : \A j \in offsets : i <= j

\* C18: the line number of a content match is 1 plus the number of newline
\* characters of the body before the earliest occurrence of a query word;
\* b.md with body "# Se\nfi me" and query "fi" is the only result of its
\* tree, a content match of line 2.
C18_LineOfEarliestOccurrence ==
  Searched =>
    LET rs == call.ret.results
    IN /\ \A i \in DOMAIN rs :
            rs[i].type = "content" =>
              LET body == BodyOf(rs[i].path)
                  offset == EarliestOccurrence(body, QueryWords)
              IN rs[i].line = Newlines(SubSeq(body, 1, offset)) + 1
       /\ (call.projectPath = LineTree /\ call.query = QFi /\ Cap >= 1)
          => (/\ Len(rs) = 1
              /\ rs[1].type = "content"
              /\ rs[1].path = BMd
              /\ rs[1].line = 2)

\* ---- C19 ----
\* isPathWithinProject has returned
Guarded == call.fn = "isPathWithinProject" /\ call.done

\* where root/p is: the segments of p applied one by one to the place of
\* root, ".." going to the parent (the file system root is its own parent)
RECURSIVE Walk(_, _)
Walk(place, segs) ==
  IF segs = <<>> THEN place
  ELSE LET seg == Head(segs)
       IN Walk(IF seg = <<>> \/ seg = <<Dot>> THEN place
               ELSE IF seg = DotDot
                    THEN SubSeq(place, 1, Max(Len(place) - 1, 0))
                    ELSE Append(place, seg),
               Tail(segs))

\* the place of root/p lies outside root
Outside(root, p) ==
  LET rootPlace == Walk(<<>>, SplitSegments(
                     IF IsAbsolute(root) THEN root ELSE Cwd \o <<Slash>> \o root,
                     <<>>))
      place == Walk(rootPlace, SplitSegments(p, <<>>))
  IN \/ Len(place) < Len(rootPlace)
     \/ SubSeq(place, 1, Len(rootPlace)) # rootPlace

\* C19: for every root and every path p such that root/p lies outside
\* root, isPathWithinProject(root, p) is false.
C19_EscapeRejected ==
  (Guarded /\ Outside(call.projectPath, call.filePath)) => ~call.ret

C19_Witness ==
  /\ Guarded
  /\ call.projectPath = RootAA
  /\ call.filePath = JoinSegments(<<<<"a">>, DotDot, DotDot>>)
  /\ Outside(call.projectPath, call.filePath)
  /\ ~call.ret

\* ---- C20 ----
\* p has no ".." segment and does not start with the separator
Plain(p) ==
  /\ ~IsAbsolute(p)
  /\ \A i \in DOMAIN SplitSegments(p, <<>>) :
       SplitSegments(p, <<>>)[i] # DotDot

\* C20: for every root and every path p without a ".." segment and without
\* a leading separator, a first segment that merely begins with two dots
\* included, isPathWithinProject(root, p) is true.
C20_PlainPathAccepted ==
  (Guarded /\ Plain(call.filePath)) => call.ret

\* ---- C21 ----
\* getMarkdownFiles has returned
Scanned == call.fn = "getMarkdownFiles" /\ call.done /\ ~call.ret.threw
\* the yielded entry is a directory entry
IsDirEntry(path) == path # <<>> /\ path[Len(path)] = Slash
\* the names in a path
Names(path) == SelectSeq(SplitSegments(path, <<>>), LAMBDA seg : seg # <<>>)

\* C21: whatever tree and prefix the route passes, no yielded path has a
\* segment that begins with a dot or a segment node_modules, and every
\* yielded file entry ends in .md.
C21_NoHiddenNoForeign ==
  Scanned =>
    \A i \in DOMAIN call.ret.files :
      LET path == call.ret.files[i]
      IN /\ \A k \in DOMAIN Names(path) :
              /\ ~StartsWith(Names(path)[k], <<Dot>>)
              /\ Names(path)[k] # NodeModules
         /\ ~IsDirEntry(path) => EndsWith(path, MdExt)

\* ---- C22 ----
\* the timer callback of project p as the sequence of its effects, in the
\* order of the program: nothing when p has no subscriber set, else one
\* write per receiver and then the removal of p's entry from the timer map
CallbackEffects(S, p, wr, fin) ==
  IF p \notin DOMAIN S.clients THEN <<>>
  ELSE [i \in 1..Len(Receivers(S, p, wr, fin)) |->
          [op |-> "write", client |-> Receivers(S, p, wr, fin)[i]]]
       \o <<[op |-> "delete", client |-> 0]>>

\* C22: when p's timer fires, p's entry is removed from the timer map before
\* the first reload is written, on every path of the callback, so that no
\* entry of p is left once the firing is over.
C22_TimerEntryRemovedFirst ==
  [][\A p \in ProjectIds :
       Fired(p) =>
         LET eff == CallbackEffects(Reg, p, writable, Finished)
         IN /\ \E k \in DOMAIN eff :
                 /\ eff[k].op = "delete"
                 /\ \A j \in 1..(k - 1) : eff[j].op # "write"
            /\ p \notin DOMAIN debounceTimers']_vars

\* ---- C23 ----
\* C23: an open connection has its heartbeat timer scheduled; once a
\* cleanup of the connection has run, or its response has ended, the timer
\* is not scheduled and no heartbeat is written to the connection, however
\* often the cleanup runs again.
C23_HeartbeatEndsWithCleanup ==
  [][\A c \in Conns :
       /\ status'[c] = "open" => heartbeat'[c]
       /\ cleanups'[c] >= 1 => ~heartbeat'[c]
       /\ (cleanups[c] >= 1 \/ Finished[c])
          => (~heartbeat'[c] /\ out'[c] = out[c])]_vars

C23_Witness ==
  \E c \in Conns :
    /\ cleanups[c] = NumCleanupHandlers
    /\ ~heartbeat[c]
    /\ out[c] = <<"connected", "ping">>

\* ---- C24 ----
\* C24: no path is reported twice; a result is reported by the first pass
\* that matches its file (a title match has no matching name, a content
\* match has neither a matching name nor a matching title), and the results
\* never outnumber the limit.
C24_EachPathOnce ==
  Searched =>
    LET rs == call.ret.results
    IN /\ \A i, j \in DOMAIN rs : rs[i].path = rs[j].path => i = j
       /\ Len(rs) <= Cap
       /\ \A i \in DOMAIN rs :
            /\ rs[i].type # "filename"
               => ~MatchesAllWords(rs[i].name, QueryWords)
            /\ rs[i].type = "content"
               => LET h1Title == ExtractH1Title(BodyOf(rs[i].path))
                  IN ~(h1Title # <<>> /\ MatchesAllWords(h1Title, QueryWords))

C24_Witness ==
  /\ Searched
  /\ call.projectPath = RankTree
  /\ call.query = QInPadded
  /\ call.limit = Limit(MaxLimit)
  /\ Len(call.ret.results) = 4
  /\ {call.ret.results[i].path : i \in 1..4}
       = {InMd, SubDir \o <<Slash>> \o InMd, GMd, BMd}

\* ---- C25 ----
\* the entries of the scanned directory that the scan does not leave out
Visible ==
  SelectSeq(ScanDir.entries,
            LAMBDA e : ~StartsWith(e.name, <<Dot>>) /\ e.name # NodeModules)

\* C25: with recursive false the directory entries yielded are the visible
\* subdirectories of dir, each once with a trailing separator, and every
\* yielded path lies directly in dir; with recursive true no directory entry
\* is yielded; a missing dir yields the empty sequence in both modes.
C25_OneLevelOrFilesOnly ==
  (call.fn = "getMarkdownFiles" /\ call.done) =>
    LET files == call.ret.files
        dirEntries == {i \in DOMAIN files : IsDirEntry(files[i])}
        subdirs == {k \in DOMAIN Visible : Visible[k].isDir}
    IN /\ ~ScanDir.exists => (~call.ret.threw /\ files = <<>>)
       /\ (Scanned /\ call.recursive) => dirEntries = {}
       /\ (Scanned /\ ~call.recursive /\ ScanDir.exists) =>
            /\ {files[i] : i \in dirEntries}
                 = {PathJoin(ScanPrefix, Visible[k].name) \o <<Slash>> :
                      k \in subdirs}
            /\ Cardinality(dirEntries) = Cardinality(subdirs)
            /\ \A i \in DOMAIN files :
                 Len(Names(files[i])) = Len(Names(ScanPrefix)) + 1

C25_Witness ==
  /\ Scanned
  /\ ~call.recursive
  /\ call.projectPath = ScanTree
  /\ call.subPath = SubPathS
  /\ call.ret.files = <<SubPathS \o <<Slash>> \o InMd,
                        SubPathS \o <<Slash>> \o TDir \o <<Slash>>>>

\* ---- C26 ----
\* C26: a connection that subscribes to p while p's timer is pending joins
\* p's subscribers and leaves the timer as it is; when the timer fires, every
\* such late joiner that is still registered and writable is written the
\* reload, and a connection of p that is no longer registered is written
\* nothing.
C26_BroadcastToSubscribersAtFiring ==
  [][\A p \in ProjectIds :
       /\ \A c \in Conns :
            (Subscribes(c, p) /\ LiveFor(p) # {})
              => (LiveFor(p)' = LiveFor(p) /\ c \in SubsNext(p))
       /\ Fired(p) =>
            /\ \A c \in joinedPending[p] :
                 /\ c \in Subs(p)
                 /\ (writable[c] /\ ~Finished[c])
                    => out'[c] = Append(out[c], "reload")
            /\ \A c \in Conns :
                 (connProject[c] = p /\ c \notin Subs(p))
                   => out'[c] = out[c]]_vars

C26_Witness ==
  /\ last = "late"
  /\ \E c, d \in Conns :
       /\ c # d
       /\ connProject[c] = connProject[d]
       /\ c \in Subs(connProject[c])
       /\ out[c] = <<"connected", "reload">>
       /\ cleanups[d] >= 1
       /\ out[d] = <<"connected">>

\* ---- C27 ----
\* C27: a watch handle of a configured project watches the path the project
\* is configured with, also after the path was changed while subscribers
\* are connected.
C27_WatchOnCurrentPath ==
  \A p \in (DOMAIN watchers) \cap (DOMAIN projects) :
    watchers[p].dir = projects[p]

\* ---- C28 ----
\* C28: every key of the timer map is the key of a scheduled timer: the
\* timer the map holds for p is live.
C28_TimerKeysAreLive ==
  \A p \in DOMAIN debounceTimers :
    [id |-> debounceTimers[p], pid |-> p] \in liveTimers

\* ---- C29 ----
\* C29: the subscribers map has no key whose subscriber set is empty.
C29_NoEmptySubscriberEntry ==
  \A p \in DOMAIN clients : clients[p] # <<>>

\* ---- C30 ----
\* C30: when p's timer fires while a connection registered for p is not
\* writable or has finished, that connection is written nothing, every other
\* connection registered for p is written exactly one reload, and the
\* callback runs to its end: p's timer entry is removed and the subscribers
\* are as before.
C30_NonWritableSkipped ==
  [][\A p \in ProjectIds :
       (Fired(p) /\ \E d \in Subs(p) : ~writable[d] \/ Finished[d])
         => /\ \A c \in Subs(p) :
                 out'[c] = IF writable[c] /\ ~Finished[c]
                           THEN Append(out[c], "reload")
                           ELSE out[c]
            /\ p \notin DOMAIN debounceTimers'
            /\ clients' = clients]_vars

C30_Witness ==
  /\ last = "skipped"
  /\ \E c, d \in Conns :
       /\ c # d
       /\ {c, d} \subseteq Subs(connProject[c])
       /\ ~writable[d]
       /\ out[d] = <<"connected">>
       /\ writable[c]
       /\ out[c] = <<"connected", "reload">>

TypeOK ==
  /\ DOMAIN projects \subseteq ProjectIds
  /\ DOMAIN clients \subseteq ProjectIds
  /\ DOMAIN watchers \subseteq ProjectIds
  /\ DOMAIN debounceTimers \subseteq ProjectIds
  /\ \A t \in liveTimers : t.id \in TimerIds /\ t.pid \in ProjectIds
====
